---- MODULE Spec2Model ----
(***************************************************************************)
(* GeoNest: the Map facade of geonest/map.py over ipyleaflet.Map.          *)
(*                                                                         *)
(* The state is the facade's observable state (layers, controls, center,   *)
(* zoom, layout height, scroll_wheel_zoom) and the basemap selector widgets *)
(* created by add_basemap_gui.  Every public method and every widget       *)
(* callback is one action.  Two history variables record the call that     *)
(* produced the state: "last" (method, arguments, raised error) and "pre"  *)
(* (the facade's state when that call started).                            *)
(***************************************************************************)
EXTENDS Integers, Sequences, FiniteSets, TLC

VARIABLES layers, controls, center, zoom, height, scroll_wheel_zoom,
          selectors, last, pre

vars == <<layers, controls, center, zoom, height, scroll_wheel_zoom,
          selectors, last, pre>>

(***************************************************************************)
(* Bounds.                                                                 *)
(***************************************************************************)
\* Layers and controls on the map beyond those a new map starts with.
MaxAdded == 2
\* Basemap selector widgets on display at a time.
MaxSelectors == 1

(***************************************************************************)
(* Strings.  Basemap names are sequences of tokens in which "." is the     *)
(* separator token; Google map types are sequences of characters.          *)
(***************************************************************************)
Dot == "."

LowerAlpha == <<"a","b","c","d","e","f","g","h","i","j","k","l","m",
                "n","o","p","q","r","s","t","u","v","w","x","y","z">>

UpperAlpha == <<"A","B","C","D","E","F","G","H","I","J","K","L","M",
                "N","O","P","Q","R","S","T","U","V","W","X","Y","Z">>

Range(s) == {s[i] : i \in DOMAIN s}

IsAlpha(c) == c \in Range(LowerAlpha) \cup Range(UpperAlpha)

\* str.upper() on one character
UpperChar(c) ==
    IF c \in Range(LowerAlpha)
    THEN UpperAlpha[CHOOSE i \in DOMAIN LowerAlpha : LowerAlpha[i] = c]
    ELSE c

\* str.lower() on one character
LowerChar(c) ==
    IF c \in Range(UpperAlpha)
    THEN LowerAlpha[CHOOSE i \in DOMAIN UpperAlpha : UpperAlpha[i] = c]
    ELSE c

\* map_type.upper()
Upper(s) == [i \in DOMAIN s |-> UpperChar(s[i])]

\* map_type.title(): a letter that starts a word is upper-cased, the others
\* are lower-cased
Title(s) ==
    [i \in DOMAIN s |->
        IF i = 1 \/ ~IsAlpha(s[i - 1]) THEN UpperChar(s[i]) ELSE LowerChar(s[i])]

\* the text between two separators, as one string
RECURSIVE Join(_)
Join(toks) == IF toks = << >> THEN "" ELSE Head(toks) \o Join(Tail(toks))

\* basemap.split("."): one segment more than there are separators
RECURSIVE Split(_)
Split(s) ==
    IF \A i \in DOMAIN s : s[i] # Dot
    THEN <<Join(s)>>
    ELSE LET i == CHOOSE k \in DOMAIN s :
                      s[k] = Dot /\ \A j \in 1..(k - 1) : s[j] # Dot
         IN  <<Join(SubSeq(s, 1, i - 1))>> \o Split(SubSeq(s, i + 1, Len(s)))

(***************************************************************************)
(* ipyleaflet.basemaps: a hierarchical namespace of tile providers.        *)
(* A Bunch answers getattr for its entries and for the methods of dict;    *)
(* a TileProvider answers for its keys and for build_url.                  *)
(***************************************************************************)
AttributeError == [kind |-> "AttributeError"]

TileProvider(nm) == [kind |-> "provider", name |-> nm]

Bunch(entries) == [kind |-> "bunch", entries |-> entries]

basemaps ==
    Bunch( "OpenStreetMap" :> Bunch("Mapnik" :> TileProvider("OpenStreetMap.Mapnik"))
        @@ "OpenTopoMap"   :> TileProvider("OpenTopoMap")
        @@ "Esri"          :> Bunch("WorldImagery" :> TileProvider("Esri.WorldImagery"))
        @@ "CartoDB"       :> Bunch("DarkMatter" :> TileProvider("CartoDB.DarkMatter")) )

getattr(node, part) ==
    CASE node.kind = "bunch" ->
            IF part \in DOMAIN node.entries THEN node.entries[part]
            ELSE IF part \in {"keys", "items"} THEN [kind |-> "method"]
            ELSE AttributeError
      [] node.kind = "provider" ->
            IF part \in {"url", "name"} THEN [kind |-> "value"]
            ELSE IF part = "build_url" THEN [kind |-> "method"]
            ELSE AttributeError
      [] OTHER -> AttributeError

\* the loop of add_basemap: provider = getattr(provider, part) for each part
RECURSIVE ResolveFrom(_, _)
ResolveFrom(provider, parts) ==
    IF parts = << >> THEN provider
    ELSE LET nxt == getattr(provider, Head(parts))
         IN  IF nxt.kind = "AttributeError" THEN AttributeError
             ELSE ResolveFrom(nxt, Tail(parts))

(***************************************************************************)
(* The facade as a record, so that a method is an operator from the state  *)
(* at the call to the state at the return; err names the raised error.     *)
(***************************************************************************)
M == [layers |-> layers, controls |-> controls, center |-> center,
      zoom |-> zoom,
      selectors |-> selectors, err |-> "none"]

\* an optional (keyword) argument: its value when given, else the default
Arg(args, key, default) == IF key \in DOMAIN args THEN args[key] ELSE default

\* Every add_* call builds a new layer or control object, so an object is on
\* the map at most once and its place in the collection identifies it.
Layer(kind, name, attr) == [kind |-> kind, name |-> name, attr |-> attr]

Control(kind, position) == [kind |-> kind, position |-> position]

IsLayer(item) == "name" \in DOMAIN item

\* an exception leaves the method at the raise: what was done so far stays
Raise(m, e) == [m EXCEPT !.err = e]

\* add that puts the new item first in its collection
add_first(m, item) ==
    IF IsLayer(item)
    THEN [m EXCEPT !.layers = <<item>> \o @]
    ELSE [m EXCEPT !.controls = <<item>> \o @]

\* ipyleaflet.Map.add: a new layer goes to the end of layers, a new control
\* to the end of controls
add(m, item) ==
    IF IsLayer(item)
    THEN [m EXCEPT !.layers = Append(@, item)]
    ELSE [m EXCEPT !.controls = Append(@, item)]

\* ipyleaflet.Map.remove of the layer object at place i: every other layer
\* stays, in order
remove(m, i) ==
    IF i \notin DOMAIN m.layers THEN Raise(m, "LayerException")
    ELSE [m EXCEPT !.layers = [j \in 1..(Len(@) - 1) |-> IF j < i THEN @[j] ELSE @[j + 1]]]

\* the zoom at which a box <<<<south, west>>, <<north, east>>>> fits the
\* display: the wider the box, the lower the zoom
FitZoom(bounds) ==
    LET span == IF bounds[2][1] - bounds[1][1] > bounds[2][2] - bounds[1][2]
                THEN bounds[2][1] - bounds[1][1]
                ELSE bounds[2][2] - bounds[1][2]
    IN  IF span > 2 THEN 6 ELSE 8

\* ipyleaflet.Map.fit_bounds: the viewport is centred on the box and zoomed
\* until the box fits
fit_bounds(m, bounds) ==
    [m EXCEPT !.center = << bounds[1][1] + (bounds[2][1] - bounds[1][1]) \div 2,
                            bounds[1][2] + (bounds[2][2] - bounds[1][2]) \div 2 >>,
              !.zoom = FitZoom(bounds)]

(***************************************************************************)
(* Map.__init__                                                            *)
(***************************************************************************)
DefaultCenter == <<20, 0>>

DefaultZoom == 2

DefaultHeight == "600px"

\* what ipyleaflet.Map puts on a new map: the default base layer, the zoom
\* control and the attribution control
BaseLayer == Layer("TileLayer", <<"OpenStreetMap", Dot, "Mapnik">>,
                   [url |-> "OpenStreetMap.Mapnik", base |-> TRUE])

DefaultControls == << Control("ZoomControl", "topleft"),
                      Control("AttributionControl", "bottomright") >>

\* __init__ without its last line: scroll-wheel zoom as the base class set it
init_keep_scroll(args) ==
    [layers |-> <<BaseLayer>>, controls |-> DefaultControls,
     center |-> Arg(args, "center", DefaultCenter),
     zoom |-> Arg(args, "zoom", DefaultZoom),
     height |-> Arg(args, "height", DefaultHeight),
     scroll_wheel_zoom |-> Arg(args, "scroll_wheel_zoom", FALSE)]

init(args) ==
    LET c == Arg(args, "center", DefaultCenter)
        z == Arg(args, "zoom", DefaultZoom)
        h == Arg(args, "height", DefaultHeight)
        \* super().__init__(center=center, zoom=zoom, **kwargs)
        super == [center |-> c, zoom |-> z,
                  scroll_wheel_zoom |-> Arg(args, "scroll_wheel_zoom", FALSE),
                  layers |-> <<BaseLayer>>, controls |-> DefaultControls]
    IN  [layers |-> super.layers, controls |-> super.controls,
         center |-> super.center, zoom |-> super.zoom,
         height |-> h,                  \* self.layout.height = height
         scroll_wheel_zoom |-> TRUE]    \* self.scroll_wheel_zoom = True

(***************************************************************************)
(* Basemaps                                                                *)
(***************************************************************************)
\* add_basemap without the raise: an unresolved name falls back to the
\* default provider
add_basemap_fallback(m, basemap) ==
    LET provider == ResolveFrom(basemaps, Split(basemap))
    IN  IF provider.kind = "AttributeError"
        THEN add(m, Layer("TileLayer", basemap, [url |-> "OpenTopoMap", base |-> FALSE]))
        ELSE IF provider.kind # "provider" THEN Raise(m, "AttributeError")
        ELSE add(m, Layer("TileLayer", basemap,
                          [url |-> provider.name, base |-> FALSE]))

\* add_basemap that keeps layer names unique: a layer of the same name is
\* taken off the map before the new one is added
add_basemap_unique(m, basemap) ==
    LET provider == ResolveFrom(basemaps, Split(basemap))
    IN  IF provider.kind = "AttributeError" THEN Raise(m, "NotFound")
        ELSE IF provider.kind # "provider" THEN Raise(m, "AttributeError")
        ELSE add([m EXCEPT !.layers = SelectSeq(@, LAMBDA l : l.name # basemap)],
                 Layer("TileLayer", basemap,
                       [url |-> provider.name, base |-> FALSE]))

add_basemap(m, basemap) ==
    LET provider == ResolveFrom(basemaps, Split(basemap))
    IN  IF provider.kind = "AttributeError" THEN Raise(m, "NotFound")
        \* provider.build_url() is outside the try block
        ELSE IF provider.kind # "provider" THEN Raise(m, "AttributeError")
        ELSE add(m, Layer("TileLayer", basemap,
                          [url |-> provider.name, base |-> FALSE]))

DefaultOptions == << <<"OpenStreetMap", Dot, "Mapnik">>,
                     <<"OpenTopoMap">>,
                     <<"Esri", Dot, "WorldImagery">>,
                     <<"CartoDB", Dot, "DarkMatter">> >>

Selector(options) ==
    [options |-> options, value |-> options[1],
     toggle |-> FALSE, children |-> "all"]

add_basemap_gui(m, args) ==
    LET options  == Arg(args, "options", DefaultOptions)
        position == Arg(args, "position", "topright")
    IN  \* value=options[0]
        IF options = << >> THEN Raise(m, "IndexError")
        ELSE LET r == add(m, Control("WidgetControl", position))
             IN  [r EXCEPT !.selectors = Append(@, Selector(options))]

on_toggle(m, s, new) ==
    [m EXCEPT !.selectors[s].toggle = new,
              !.selectors[s].children = IF new THEN "all" ELSE "toggle"]

\* on_close that also takes the selected basemap off the map
on_close_with_layer(m, s) ==
    [m EXCEPT !.selectors = [j \in 1..(Len(@) - 1) |-> IF j < s THEN @[j] ELSE @[j + 1]],
              !.layers = IF Len(@) > 1 THEN SubSeq(@, 1, Len(@) - 1) ELSE @]

\* container.close(): the widget leaves the display; selectors holds the
\* selector widgets that are on display
on_close(m, s) ==
    [m EXCEPT !.selectors = [j \in 1..(Len(@) - 1) |-> IF j < s THEN @[j] ELSE @[j + 1]]]

\* on_change without the test on the number of layers: the last layer is
\* removed even when it is the only one
on_change_always_remove(m, s, new_basemap) ==
    LET v == [m EXCEPT !.selectors[s].value = new_basemap]
    IN  IF new_basemap # << >>
        THEN add_basemap([v EXCEPT !.layers = SubSeq(@, 1, Len(@) - 1)], new_basemap)
        ELSE v

\* on_change that puts the removed layer back when add_basemap raises
on_change_restoring(m, s, new_basemap) ==
    LET v == [m EXCEPT !.selectors[s].value = new_basemap]
    IN  IF new_basemap # << >>
        THEN LET r == IF Len(v.layers) > 1 THEN remove(v, Len(v.layers)) ELSE v
                 a == IF r.err # "none" THEN r ELSE add_basemap(r, new_basemap)
             IN  IF a.err # "none" THEN [a EXCEPT !.layers = v.layers] ELSE a
        ELSE v

on_change(m, s, new_basemap) ==
    LET v == [m EXCEPT !.selectors[s].value = new_basemap]
    IN  IF new_basemap # << >>
        THEN LET r == IF Len(v.layers) > 1
                      THEN remove(v, Len(v.layers))
                      ELSE v
             IN  IF r.err # "none" THEN r ELSE add_basemap(r, new_basemap)
        ELSE v

(***************************************************************************)
(* Widgets, Google Maps                                                    *)
(***************************************************************************)
add_widget(m, widget, args) ==
    add(m, Control("WidgetControl", Arg(args, "position", "topright")))

types == <<"R","O","A","D","M","A","P">>         :> "m"
      @@ <<"S","A","T","E","L","L","I","T","E">> :> "s"
      @@ <<"H","Y","B","R","I","D">>             :> "y"
      @@ <<"T","E","R","R","A","I","N">>         :> "p"

\* add_google_map without upper(): the key is the type as given
add_google_map_case_sensitive(m, map_type) ==
    IF map_type \notin DOMAIN types THEN Raise(m, "InvalidEnum")
    ELSE add(m, Layer("TileLayer",
                      <<"G","o","o","g","l","e"," ">> \o Title(map_type),
                      [url |-> types[map_type], base |-> FALSE]))

add_google_map(m, map_type) ==
    LET key == Upper(map_type)
    IN  IF key \notin DOMAIN types THEN Raise(m, "InvalidEnum")
        ELSE add(m, Layer("TileLayer",
                          <<"G","o","o","g","l","e"," ">> \o Title(map_type),
                          [url |-> types[key], base |-> FALSE]))

(***************************************************************************)
(* Vector data.  A datum is [type, ok, total_bounds]: its runtime type,    *)
(* whether the vector reader / the reprojection accepts it, and its        *)
(* bounding box <<minx, miny, maxx, maxy>>.                                *)
(***************************************************************************)
DefaultHoverStyle == [color |-> "yellow", fillOpacity |-> 3]   \* tenths

\* gdf.__geo_interface__: the table as a GeoJSON dict
geo_interface(gdf) == [gdf EXCEPT !.type = "dict"]

\* add_geojson that fits the viewport whenever the data has a bounding box,
\* whatever zoom_to_layer says
add_geojson_always_fit(m, data, args) ==
    LET hover_style == Arg(args, "hover_style", DefaultHoverStyle)
        isPath      == data.type = "str"
    IN  IF isPath /\ ~data.ok THEN Raise(m, "ReadError")
        ELSE IF ~isPath /\ data.type # "dict" THEN Raise(m, "InvalidInput")
        ELSE LET r == add(m, Layer("GeoJSON", << >>, [hover_style |-> hover_style]))
                 b == data.total_bounds
             IN  fit_bounds(r, << <<b[2], b[1]>>, <<b[4], b[3]>> >>)

\* add_geojson without the final else: whatever is not a path is used as
\* the GeoJSON structure
add_geojson_unchecked(m, data, args) ==
    LET zoom_to_layer == Arg(args, "zoom_to_layer", TRUE)
        hover_style   == Arg(args, "hover_style", DefaultHoverStyle)
        isPath        == data.type = "str"
    IN  IF isPath /\ ~data.ok THEN Raise(m, "ReadError")
        ELSE LET r == add(m, Layer("GeoJSON", << >>, [hover_style |-> hover_style]))
                 b == data.total_bounds
             IN  IF zoom_to_layer /\ isPath
                 THEN fit_bounds(r, << <<b[2], b[1]>>, <<b[4], b[3]>> >>)
                 ELSE r

add_geojson(m, data, args) ==
    LET zoom_to_layer == Arg(args, "zoom_to_layer", TRUE)
        hover_style   == Arg(args, "hover_style", DefaultHoverStyle)
        isPath        == data.type = "str"
    IN  IF isPath /\ ~data.ok THEN Raise(m, "ReadError")
        ELSE IF ~isPath /\ data.type # "dict" THEN Raise(m, "InvalidInput")
        ELSE LET r == add(m, Layer("GeoJSON", << >>,
                                   [hover_style |-> hover_style]))
                 b == data.total_bounds
             IN  \* gdf is not None only for a file path
                 IF r.err = "none" /\ zoom_to_layer /\ isPath
                 THEN fit_bounds(r, << <<b[2], b[1]>>, <<b[4], b[3]>> >>)
                 ELSE r

\* add_gdf that forwards the table's bounding box: the viewport is fitted
\* to it when zoom_to_layer is true
add_gdf_with_fit(m, gdf, args) ==
    IF ~gdf.ok THEN Raise(m, "CrsError")
    ELSE LET r == add_geojson(m, geo_interface(gdf), args)
             b == gdf.total_bounds
         IN  IF r.err = "none" /\ Arg(args, "zoom_to_layer", TRUE)
             THEN fit_bounds(r, << <<b[2], b[1]>>, <<b[4], b[3]>> >>)
             ELSE r

add_gdf(m, gdf, args) ==
    IF ~gdf.ok THEN Raise(m, "CrsError")
    ELSE add_geojson(m, geo_interface(gdf), args)

\* add_vector without the dict branch
add_vector_no_dict(m, data, args) ==
    IF data.type = "str" THEN add_geojson(m, data, args)
    ELSE IF data.type = "GeoDataFrame" THEN add_gdf(m, data, args)
    ELSE Raise(m, "UnsupportedType")

add_vector(m, data, args) ==
    IF data.type = "str" THEN add_geojson(m, data, args)
    ELSE IF data.type = "GeoDataFrame" THEN add_gdf(m, data, args)
    ELSE IF data.type = "dict" THEN add_geojson(m, data, args)
    ELSE Raise(m, "UnsupportedType")

(***************************************************************************)
(* Raster and media, services                                              *)
(***************************************************************************)
WorldBounds == << <<-90, -180>>, <<90, 180>> >>

\* a raster is [ok, center, default_zoom]: whether TileClient serves it,
\* and the center and zoom the client reports
add_raster(m, raster) ==
    IF ~raster.ok THEN Raise(m, "RasterError")
    ELSE LET r == add(m, Layer("TileLayer", << >>,
                               [url |-> "localtileserver", base |-> FALSE]))
         IN  IF r.err # "none" THEN r
             ELSE [r EXCEPT !.center = raster.center, !.zoom = raster.default_zoom]

add_image(m, image, args) ==
    add(m, Layer("ImageOverlay", << >>,
                 [image |-> image, bounds |-> Arg(args, "bounds", WorldBounds)]))

add_video(m, video, args) ==
    add(m, Layer("VideoOverlay", << >>,
                 [video |-> video, bounds |-> Arg(args, "bounds", WorldBounds)]))

add_wms_layer(m, url, lyrs, args) ==
    add(m, Layer("WMSLayer", << >>,
                 [wms |-> url, layers |-> lyrs,
                  format |-> Arg(args, "format", "image/png"),
                  transparent |-> Arg(args, "transparent", TRUE)]))

\* add_layer_control that adds nothing when the map has a layer control
add_layer_control_once(m, args) ==
    IF \E i \in DOMAIN m.controls : m.controls[i].kind = "LayersControl"
    THEN m
    ELSE add(m, Control("LayersControl", Arg(args, "position", "topright")))

add_layer_control(m, args) ==
    add(m, Control("LayersControl", Arg(args, "position", "topright")))

(***************************************************************************)
(* Inputs.                                                                 *)
(***************************************************************************)
NoArgs == << >>

ConstructorArgs ==
    { NoArgs,
      "center" :> <<30, 31>> @@ "zoom" :> 10 @@ "height" :> "800px"
          @@ "scroll_wheel_zoom" :> FALSE }

BasemapNames ==
    { <<"OpenTopoMap">>,
      <<"Esri", Dot, "WorldImagery">>,
      <<"NonExistentBasemap">>,
      <<"Esri", Dot, "NoSuchMap">>,
      <<"OpenStreetMap">> }

SelectorArgs ==
    { NoArgs,
      "options" :> << <<"OpenTopoMap">>, <<"NonExistentBasemap">>, << >> >>
          @@ "position" :> "bottomleft",
      "options" :> << >> }

MapTypes ==
    { <<"R","O","A","D","M","A","P">>,
      <<"r","o","a","d","m","a","p">>,
      <<"S","a","t","e","l","l","i","t","e">>,
      <<"h","Y","B","R","I","D">>,
      <<"t","e","r","r","a","i","n">>,
      <<"I","N","V","A","L","I","D">> }

Datum(type, ok) == [type |-> type, ok |-> ok, total_bounds |-> <<30, 26, 32, 30>>]

GeojsonData ==
    { Datum("str", TRUE), Datum("str", FALSE), Datum("dict", TRUE), Datum("int", TRUE) }

Tables == { Datum("GeoDataFrame", TRUE), Datum("GeoDataFrame", FALSE) }

VectorData ==
    { Datum("str", TRUE), Datum("dict", TRUE), Datum("GeoDataFrame", TRUE),
      Datum("list", TRUE) }

VectorArgs == { NoArgs, "zoom_to_layer" :> FALSE }

Rasters ==
    { [ok |-> TRUE, center |-> <<10, 12>>, default_zoom |-> 8],
      [ok |-> FALSE, center |-> <<0, 0>>, default_zoom |-> 0] }

OverlayArgs == { NoArgs }

WmsArgs == { NoArgs }

ControlArgs == { NoArgs }

(***************************************************************************)
(* Actions: one per public method and one per callback.                    *)
(***************************************************************************)
\* room for one more layer or control within the bound; a dropdown change
\* on a map of more than one layer removes a layer before it adds one
Room == Len(layers) + Len(controls) < Len(<<BaseLayer>>) + Len(DefaultControls) + MaxAdded

\* the call returns (or raises) in state r
Return(op, arg, r) ==
    /\ layers' = r.layers
    /\ controls' = r.controls
    /\ center' = r.center
    /\ zoom' = r.zoom
    /\ selectors' = r.selectors
    /\ last' = [op |-> op, arg |-> arg, err |-> r.err]
    /\ pre' = M
    /\ UNCHANGED <<height, scroll_wheel_zoom>>

AddBasemap ==
    \E basemap \in BasemapNames :
        Room /\ Return("add_basemap", basemap, add_basemap(M, basemap))

AddBasemapGui ==
    \E args \in SelectorArgs :
        /\ Room
        /\ Len(selectors) < MaxSelectors
        /\ Return("add_basemap_gui", args, add_basemap_gui(M, args))

\* The callbacks run when the user acts on a widget that is on display: the
\* toggle button always is, the dropdown and the close button are while the
\* container shows all its children.  An observer runs only when the value
\* changes, so a selection differs from the dropdown's current value.
OnToggle ==
    \E s \in DOMAIN selectors :
        /\ Return("on_toggle", s, on_toggle(M, s, ~selectors[s].toggle))

OnClose ==
    \E s \in DOMAIN selectors :
        /\ selectors[s].children = "all"
        /\ Return("on_close", s, on_close(M, s))

OnChange ==
    \E s \in DOMAIN selectors :
        \E new \in Range(selectors[s].options) :
            /\ (Room \/ Len(layers) > 1)
            /\ selectors[s].children = "all"
            /\ new # selectors[s].value
            /\ Return("on_change", <<s, new>>, on_change(M, s, new))

AddWidget ==
    \E args \in ControlArgs :
        Room /\ Return("add_widget", args, add_widget(M, "widget", args))

AddGoogleMap ==
    \E map_type \in MapTypes :
        Room /\ Return("add_google_map", map_type, add_google_map(M, map_type))

AddGeojson ==
    \E data \in GeojsonData, args \in VectorArgs :
        Room /\ Return("add_geojson", <<data, args>>, add_geojson(M, data, args))

AddGdf ==
    \E gdf \in Tables, args \in VectorArgs :
        Room /\ Return("add_gdf", <<gdf, args>>, add_gdf(M, gdf, args))

AddVector ==
    \E data \in VectorData, args \in VectorArgs :
        Room /\ Return("add_vector", <<data, args>>, add_vector(M, data, args))

AddRaster ==
    \E raster \in Rasters :
        Room /\ Return("add_raster", raster, add_raster(M, raster))

AddImage ==
    \E args \in OverlayArgs :
        Room /\ Return("add_image", args, add_image(M, "image.png", args))

AddVideo ==
    \E args \in OverlayArgs :
        Room /\ Return("add_video", args, add_video(M, "video.mp4", args))

AddWmsLayer ==
    \E args \in WmsArgs :
        Room /\ Return("add_wms_layer", args,
                       add_wms_layer(M, "https://example.com/wms", "layer_name", args))

AddLayerControl ==
    \E args \in ControlArgs :
        Room /\ Return("add_layer_control", args, add_layer_control(M, args))

Init ==
    \E args \in ConstructorArgs :
        LET r == init(args)
        IN  /\ layers = r.layers
            /\ controls = r.controls
            /\ center = r.center
            /\ zoom = r.zoom
            /\ height = r.height
            /\ scroll_wheel_zoom = r.scroll_wheel_zoom
            /\ selectors = << >>
            /\ last = [op |-> "__init__", arg |-> args, err |-> "none"]
            /\ pre = [layers |-> r.layers, controls |-> r.controls,
                      center |-> r.center, zoom |-> r.zoom,
                      selectors |-> << >>, err |-> "none"]

Next ==
    \/ AddBasemap
    \/ AddBasemapGui
    \/ OnToggle
    \/ OnClose
    \/ OnChange
    \/ AddWidget
    \/ AddGoogleMap
    \/ AddGeojson
    \/ AddGdf
    \/ AddVector
    \/ AddRaster
    \/ AddImage
    \/ AddVideo
    \/ AddWmsLayer
    \/ AddLayerControl

Spec == Init /\ [][Next]_vars

(***************************************************************************)
(* Properties.  In each, pre is the facade when the call named by last     *)
(* started and the unprimed variables are the facade when it returned.     *)
(***************************************************************************)
IsPrefix(a, b) == Len(a) <= Len(b) /\ SubSeq(b, 1, Len(a)) = a

Last(seq) == seq[Len(seq)]

\* some segment of the name does not resolve, given that those before it do
Unresolvable(name) ==
    \E k \in 1..Len(Split(name)) :
        LET before == ResolveFrom(basemaps, SubSeq(Split(name), 1, k - 1))
        IN  /\ before.kind # "AttributeError"
            /\ getattr(before, Split(name)[k]).kind = "AttributeError"

\* C1: add_basemap with a name of which some segment does not resolve raises
\* NotFound and leaves layers, controls, center and zoom as they were.
C1_UnresolvedNameRaisesNotFound ==
    (last.op = "add_basemap" /\ Unresolvable(last.arg)) =>
        /\ last.err = "NotFound"
        /\ layers = pre.layers
        /\ controls = pre.controls
        /\ center = pre.center
        /\ zoom = pre.zoom

\* a known provider followed by an unknown sub-name, on a map with added layers
C1_Witness ==
    /\ last.op = "add_basemap"
    /\ last.err = "NotFound"
    /\ Len(Split(last.arg)) > 1
    /\ Len(layers) > 1

\* C2: a successful add_basemap(name) appends one layer named name and keeps
\* the previous layers, in order, as a prefix, also when the name is taken.
C2_BasemapAppendsOneLayer ==
    (last.op = "add_basemap" /\ last.err = "none") =>
        /\ Len(layers) = Len(pre.layers) + 1
        /\ IsPrefix(pre.layers, layers)
        /\ Last(layers).name = last.arg

\* the second add_basemap with one name: two added layers of that name
C2_Witness ==
    /\ last.op = "add_basemap"
    /\ last.err = "none"
    /\ Cardinality({i \in DOMAIN layers : i > 1 /\ layers[i].name = last.arg}) = 2

\* the layers before the call without the most recently added one
ButLast(seq) == SubSeq(seq, 1, Len(seq) - 1)

\* C3 as stated: a dropdown change to a non-empty name leaves the layer count
\* unchanged when the map holds more than one layer, and takes it from 1 to
\* 2 when the map holds exactly one.
C3_Original ==
    (last.op = "on_change" /\ last.arg[2] # << >>) =>
        IF Len(pre.layers) > 1
        THEN Len(layers) = Len(pre.layers)
        ELSE Len(layers) = 2

\* C3, amended: on a dropdown change to a non-empty name the last layer is
\* removed when the map holds more than one layer, none is removed when it
\* holds exactly one, and add_basemap is then called with the new name: when
\* that call succeeds its layer ends the collection and the count is
\* unchanged (or goes from 1 to 2); when it raises, the collection is left
\* as the removal made it.
C3_ChangeReplacesLastLayer ==
    (last.op = "on_change" /\ last.arg[2] # << >>) =>
        LET kept == IF Len(pre.layers) > 1 THEN ButLast(pre.layers) ELSE pre.layers
        IN  IF last.err = "none"
            THEN /\ ButLast(layers) = kept
                 /\ Last(layers).name = last.arg[2]
                 /\ Len(layers) = IF Len(pre.layers) > 1 THEN Len(pre.layers) ELSE 2
            ELSE layers = kept

\* a change on a map of two layers puts the new basemap in the place of the
\* second one
C3_Witness ==
    /\ last.op = "on_change"
    /\ last.err = "none"
    /\ Len(pre.layers) = 2
    /\ Len(layers) = 2
    /\ layers[1] = pre.layers[1]
    /\ layers[2].name = last.arg[2]
    /\ layers[2].name # pre.layers[2].name

\* C4: the close button takes the selector off the display and leaves the
\* layers (and the controls, center and zoom) as they were.
C4_CloseKeepsLayers ==
    last.op = "on_close" =>
        /\ Len(selectors) = Len(pre.selectors) - 1
        /\ layers = pre.layers
        /\ controls = pre.controls
        /\ center = pre.center
        /\ zoom = pre.zoom

\* the selector is closed after a selection put a basemap on the map
C4_Witness ==
    /\ last.op = "on_close"
    /\ pre.selectors[last.arg].value # pre.selectors[last.arg].options[1]
    /\ Len(layers) > 1
    /\ Last(layers).name = pre.selectors[last.arg].value

\* C5: add_geojson of a dict with zoom_to_layer=False adds exactly one layer
\* and changes neither center nor zoom.
C5_GeojsonDictNoZoom ==
    ( /\ last.op = "add_geojson"
      /\ last.arg[1].type = "dict"
      /\ "zoom_to_layer" \in DOMAIN last.arg[2]
      /\ ~last.arg[2]["zoom_to_layer"] ) =>
        /\ last.err = "none"
        /\ Len(layers) = Len(pre.layers) + 1
        /\ center = pre.center
        /\ zoom = pre.zoom

\* the call is made on a map whose viewport an earlier call has moved
C5_Witness ==
    /\ last.op = "add_geojson"
    /\ last.arg[1].type = "dict"
    /\ "zoom_to_layer" \in DOMAIN last.arg[2]
    /\ ~last.arg[2]["zoom_to_layer"]
    /\ Len(layers) = Len(pre.layers) + 1
    /\ center \notin {DefaultCenter, <<30, 31>>}

\* C6: add_geojson of a value that is neither a string nor a dict raises
\* InvalidInput, adds no layer and changes neither center nor zoom.
C6_GeojsonInvalidInput ==
    (last.op = "add_geojson" /\ last.arg[1].type \notin {"str", "dict"}) =>
        /\ last.err = "InvalidInput"
        /\ layers = pre.layers
        /\ center = pre.center
        /\ zoom = pre.zoom

C6_Witness ==
    /\ last.op = "add_geojson"
    /\ last.arg[1].type = "int"
    /\ last.err = "InvalidInput"
    /\ Len(layers) > 1

\* the facade as the call named by last left it
Now == [M EXCEPT !.err = last.err]

\* C7: add_vector sends a string and a dict to add_geojson and a
\* GeoDataFrame to add_gdf, with the same arguments, and raises
\* UnsupportedType for any other value without adding a layer; a dict with
\* zoom_to_layer=False leaves the map as add_geojson leaves it.
C7_VectorDispatch ==
    last.op = "add_vector" =>
        LET data == last.arg[1]
            args == last.arg[2]
        IN  /\ CASE data.type \in {"str", "dict"} -> Now = add_geojson(pre, data, args)
                  [] data.type = "GeoDataFrame"  -> Now = add_gdf(pre, data, args)
                  [] OTHER -> /\ last.err = "UnsupportedType"
                              /\ layers = pre.layers
            /\ (data.type = "dict" /\ args = "zoom_to_layer" :> FALSE) =>
                   /\ last.err = "none"
                   /\ layers = Append(pre.layers, Last(layers))
                   /\ Last(layers).kind = "GeoJSON"
                   /\ center = pre.center
                   /\ zoom = pre.zoom

C7_Witness ==
    /\ last.op = "add_vector"
    /\ last.arg[1].type = "dict"
    /\ last.arg[2] = "zoom_to_layer" :> FALSE
    /\ last.err = "none"
    /\ Len(layers) = Len(pre.layers) + 1
    /\ Last(layers).kind = "GeoJSON"

ROADMAP == <<"R","O","A","D","M","A","P">>

SATELLITE == <<"S","A","T","E","L","L","I","T","E">>

HYBRID == <<"H","Y","B","R","I","D">>

TERRAIN == <<"T","E","R","R","A","I","N">>

\* C8: add_google_map raises InvalidEnum and adds no layer when the
\* upper-cased map_type is none of ROADMAP, SATELLITE, HYBRID, TERRAIN, and
\* appends exactly one tile layer for each of the four in any letter case.
C8_GoogleMapType ==
    last.op = "add_google_map" =>
        IF Upper(last.arg) \in {ROADMAP, SATELLITE, HYBRID, TERRAIN}
        THEN /\ last.err = "none"
             /\ Len(layers) = Len(pre.layers) + 1
             /\ IsPrefix(pre.layers, layers)
             /\ Last(layers).kind = "TileLayer"
        ELSE /\ last.err = "InvalidEnum"
             /\ layers = pre.layers

\* a valid type given in lower case
C8_Witness ==
    /\ last.op = "add_google_map"
    /\ last.arg # Upper(last.arg)
    /\ last.err = "none"
    /\ Len(layers) = Len(pre.layers) + 1

\* C9: add_layer_control makes the controls collection exactly one longer
\* and leaves the layers unchanged.
C9_LayerControlAddsOneControl ==
    last.op = "add_layer_control" =>
        /\ Len(controls) = Len(pre.controls) + 1
        /\ IsPrefix(pre.controls, controls)
        /\ layers = pre.layers

\* the second layer control on one map
C9_Witness ==
    /\ last.op = "add_layer_control"
    /\ \E i \in DOMAIN pre.controls : pre.controls[i].kind = "LayersControl"
    /\ Len(controls) = Len(pre.controls) + 1

\* C10: a new Map has center (20, 0), zoom 2 and height "600px" unless the
\* argument is given, then exactly the given value, and scroll-wheel zoom
\* is enabled in either case.
C10_ConstructorDefaults ==
    last.op = "__init__" =>
        /\ center = IF "center" \in DOMAIN last.arg THEN last.arg["center"] ELSE <<20, 0>>
        /\ zoom = IF "zoom" \in DOMAIN last.arg THEN last.arg["zoom"] ELSE 2
        /\ height = IF "height" \in DOMAIN last.arg THEN last.arg["height"] ELSE "600px"
        /\ scroll_wheel_zoom

\* a map made with explicit center, zoom and height
C10_Witness ==
    /\ last.op = "__init__"
    /\ {"center", "zoom", "height"} \subseteq DOMAIN last.arg
    /\ center = <<30, 31>>
    /\ zoom = 10
    /\ height = "800px"
    /\ scroll_wheel_zoom

AddMethods ==
    { "add_basemap", "add_google_map", "add_geojson", "add_gdf", "add_vector",
      "add_raster", "add_image", "add_video", "add_wms_layer",
      "add_layer_control", "add_widget", "add_basemap_gui" }

\* C11: every add_* call leaves the layers and the controls it found as a
\* prefix of the layers and the controls it returns with, so that without a
\* dropdown change no layer or control is ever removed or reordered.
C11_AddCallsOnlyAppend ==
    last.op \in AddMethods =>
        /\ IsPrefix(pre.layers, layers)
        /\ IsPrefix(pre.controls, controls)

\* an add_* call has put a layer of another kind after an earlier added layer
C11_Witness ==
    /\ last.op \in AddMethods
    /\ Len(pre.layers) = 2
    /\ Len(layers) = 3
    /\ SubSeq(layers, 1, 2) = pre.layers
    /\ layers[3].kind # layers[2].kind

\* the box <<<<minLat, minLon>>, <<maxLat, maxLon>>>> of a datum
LatLonBox(data) ==
    << <<data.total_bounds[2], data.total_bounds[1]>>,
       <<data.total_bounds[4], data.total_bounds[3]>> >>

IsOverlay(layer) ==
    \/ layer.kind \in {"GeoJSON", "ImageOverlay", "VideoOverlay", "WMSLayer"}
    \/ layer.kind = "TileLayer" /\ layer.attr.url = "localtileserver"

\* C13: a dropdown change never removes the default base layer, which stays
\* first, and never removes a GeoJSON, raster, image, video or WMS layer
\* that was added after the last basemap: with such a layer last on the map,
\* every layer the map held is still there, in order, after the change.
C13_ChangeRemovesOnlyBasemaps ==
    last.op = "on_change" =>
        /\ layers[1] = BaseLayer
        /\ (Len(pre.layers) > 1 /\ IsOverlay(Last(pre.layers))) =>
               IsPrefix(pre.layers, layers)

\* the part of C13 that holds: the default base layer stays first
C13_BaseLayerStaysFirst ==
    last.op = "on_change" => (Len(layers) >= 1 /\ layers[1] = BaseLayer)

\* C14: a dropdown change to a name that add_basemap cannot resolve raises
\* NotFound out of the callback; on a map of more than one layer the last
\* layer is gone and stays gone, so the count is one lower, and on a map of
\* exactly one layer the collection is unchanged.
C14_FailedChangeKeepsRemoval ==
    (last.op = "on_change" /\ last.arg[2] # << >> /\ Unresolvable(last.arg[2])) =>
        /\ last.err = "NotFound"
        /\ IF Len(pre.layers) > 1
           THEN /\ Len(layers) = Len(pre.layers) - 1
                /\ layers = ButLast(pre.layers)
           ELSE layers = pre.layers

\* the failed change took an added layer off a map of two layers
C14_Witness ==
    /\ last.op = "on_change"
    /\ last.err = "NotFound"
    /\ Len(pre.layers) = 2
    /\ layers = <<BaseLayer>>

====
